---- MODULE Spec2Model ----
(***************************************************************************)
(* The order front-end server of kubernetes-envoy-example                  *)
(* (src/order/order.go): one listening socket shared by a native gRPC      *)
(* server and an HTTP mux (metrics, healthz, grpc-gateway), the unary      *)
(* server interceptor chain, and the Run / Stop lifecycle.                 *)
(***************************************************************************)
EXTENDS Integers, Sequences

(* ------------------------------ bounds -------------------------------- *)

\* connections (one request each) in the interceptor-chain specification
MaxCalls == 2
\* connections in the lifecycle specifications
MaxLifeConns == 1
\* connections in the routing specification
MaxRouteConns == 1
\* concurrent or successive callers of Stop
MaxStops == 2
\* the clock of a Stop caller is not advanced past this many seconds
MaxElapsed == 12
\* a connection is not reused once the store holds this many orders
MaxOrders == 4
\* the number of clock steps the grace period of Stop is divided into
MaxTicks == 2
\* the most fixture orders LoadSampleData is taken to put into the store
MaxSampleOrders == 2

(* -------------------------- program constants ------------------------- *)

\* time.Second*3 handed to the sleeper interceptor
SleeperDelay == 3
\* time.Second*10 of the shutdown context
GracePeriod == 10

\* MaxLifeConns and MaxRouteConns stay at or below MaxCalls
Conns == 1 .. MaxCalls
Stoppers == 1 .. MaxStops

(* ------------------------------ addresses ----------------------------- *)
\* A listen address "host:port" is kept as its two parts; ok is FALSE for a
\* string net.SplitHostPort rejects (no port, such as "localhost" or "").

Addr(h, p, ok) == [host |-> h, port |-> p, ok |-> ok]

DefaultAddress == Addr("", "8080", TRUE)

Addresses ==
  { DefaultAddress,
    Addr("10.0.0.5", "8080", TRUE),
    Addr("localhost", "", FALSE),
    Addr("", "", FALSE) }

\* net.Listen resolves its address with SplitHostPort, except the empty
\* string, which it takes as the wildcard host with a port of its choosing.
Bindable(a) == a.ok \/ (a.host = "" /\ a.port = "")

SplitHostPort(a) == [host |-> a.host, port |-> a.port, err |-> ~a.ok]

JoinHostPort(h, p) == Addr(h, p, TRUE)

\* net.Listen("tcp", address): the socket the kernel binds. Port 0 or no port
\* asks for an ephemeral port; an empty host is the wildcard.
EphemeralPort == "49152"

Listen(a) ==
  [host |-> a.host,
   port |-> IF a.port \in {"0", ""} THEN EphemeralPort ELSE a.port]

\* Whether a dial of endpoint e reaches a socket bound as b.
Reaches(e, b) == /\ e.port = b.port
                 /\ b.host \in {"", "0.0.0.0", e.host}

\* The endpoint the gateway is registered with.
GatewayEndpoint(a) == JoinHostPort("127.0.0.1", SplitHostPort(a).port)

(* ------------------------------ requests ------------------------------ *)
\* A Content-Type value is a sequence of tokens, so that prefix and substring
\* tests are computed and not assumed.

GrpcToken == "application/grpc"

ContentTypes ==
  { <<>>,
    <<"application/json">>,
    <<GrpcToken>>,
    <<GrpcToken, "+proto">>,
    <<"text/x-", GrpcToken>> }

RpcPath == "/order.OrderService/CreateOrder"
ListPath == "/order.OrderService/ListOrders"
RestPath == "/v1/orders"

\* The methods order.RegisterOrderServiceServer registers.
RpcPaths == {RpcPath, ListPath}

Paths == {"/metrics", "/healthz", RestPath, RpcPath}

Requests ==
  [method : {"GET", "POST"}, proto : {1, 2}, ctype : ContentTypes, path : Paths]

NativeRequest ==
  [method |-> "POST", proto |-> 2, ctype |-> <<GrpcToken>>, path |-> RpcPath]

RestRequest ==
  [method |-> "POST", proto |-> 1, ctype |-> <<"application/json">>, path |-> RestPath]

CanonicalRequests == {NativeRequest, RestRequest}

\* strings.Contains(ct, "application/grpc")
Contains(ct, tok) == \E i \in 1 .. Len(ct) : ct[i] = tok

\* strings.HasPrefix(ct, "application/grpc")
HasPrefix(ct, tok) == Len(ct) >= 1 /\ ct[1] = tok

\* What s.grpc.ServeHTTP takes as a gRPC Content-Type: application/grpc,
\* alone or followed by a "+subtype" or ";parameter".
ValidContentType(ct) ==
  /\ HasPrefix(ct, GrpcToken)
  /\ Len(ct) = 1 \/ ct[2] \in {"+proto"}

\* s.grpc.ServeHTTP serves only HTTP/2 POST requests with such a
\* Content-Type; any other request gets a plain HTTP error.
GrpcAccepts(r) == r.proto = 2 /\ r.method = "POST" /\ ValidContentType(r.ctype)

\* The condition of the handler func installed by Run.
IsGrpc(r) == r.proto = 2 /\ Contains(r.ctype, GrpcToken)

\* http.ServeMux with the three patterns Run registers: "/metrics" and
\* "/healthz" match exactly, "/" matches everything else.
MuxRoute(path) ==
  IF path = "/metrics" THEN "metrics"
  ELSE IF path = "/healthz" THEN "healthz"
  ELSE "gateway"

Dispatch(r) == IF IsGrpc(r) THEN "grpc" ELSE MuxRoute(r.path)

\* A health handler that checks its dependencies.
HealthzDeep(itemReachable, nOrders) ==
  IF itemReachable THEN [status |-> 200, body |-> "OK\n"]
  ELSE [status |-> 503, body |-> "item service unavailable\n"]

\* func healthz: writes "OK\n"; the status is the implicit 200.
Healthz(itemReachable, nOrders) == [status |-> 200, body |-> "OK\n"]

(* -------------------------- interceptor chain ------------------------- *)

\* What the RPC of a request will meet: success, a business error, a panic in
\* the handler, a payload that fails validation, malformed credentials.
Kinds == {"ok", "bizerr", "panic", "invalid", "unauth"}

\* The kinds drawn where only the time a call is in flight, or its effect on
\* the store, matters.
LifeKinds == {"ok"}
RouteKinds == {"ok"}

\* The chain with the validator registered ahead of the sleeper.
ChainValidatorFirst ==
  <<"identity", "validator", "sleeper", "metrics", "logging", "recovery">>

\* The chain with recovery registered first, outside metrics and logging.
ChainRecoveryFirst ==
  <<"recovery", "identity", "sleeper", "validator", "metrics", "logging">>

\* The argument list of grpc_middleware.ChainUnaryServer, outermost first.
Chain ==
  <<"identity", "sleeper", "validator", "metrics", "logging", "recovery">>

\* What a stage does before it calls the next handler: "" to go on, or the
\* status code it returns without calling it.
StageReject(stage, kind) ==
  IF stage = "identity" /\ kind = "unauth" THEN "Unauthenticated"
  ELSE IF stage = "validator" /\ kind = "invalid" THEN "InvalidArgument"
  ELSE ""

\* The delay a stage adds before it calls the next handler.
StageDelay(stage) == IF stage = "sleeper" THEN SleeperDelay ELSE 0

\* The stages that act again after the next handler has returned.
PostStages == {"metrics", "logging", "recovery"}

\* The innermost entered stage, at depth d or outside it, that acts on the
\* way out; 0 when none is left.
RECURSIVE NextPost(_)
NextPost(d) ==
  IF d = 0 THEN 0
  ELSE IF Chain[d] \in PostStages THEN d
  ELSE NextPost(d - 1)

\* The Order Store handler's own result.
HandlerCode(kind, itemReachable) ==
  IF kind = "bizerr" THEN "NotFound"
  ELSE IF ~itemReachable THEN "Unavailable"
  ELSE "OK"

\* grpc-gateway's mapping of a status code to an HTTP status.
HTTPStatus(code) ==
  CASE code = "OK" -> 200
    [] code = "InvalidArgument" -> 400
    [] code = "Unauthenticated" -> 401
    [] code = "NotFound" -> 404
    [] code = "Unimplemented" -> 501
    [] code = "Unavailable" -> 503
    [] OTHER -> 500

(* ------------------------------- state -------------------------------- *)

VARIABLES
  address,    \* Server.address
  server,     \* Server.server: "nil" or "set"
  grpc,       \* Server.grpc: "nil" or "set"
  runPc,      \* where Run is
  runErr,     \* what Run returned
  listener,   \* the socket of net.Listen: "none", "open", "closed"
  inShutdown, \* http.Server's shutdown flag
  acceptErr,  \* the error the pending Accept of Serve returned
  stopPc,     \* per caller of Stop: "idle", "polling", "done", "panicked"
  elapsed,    \* per caller of Stop: seconds since its context was created
  conn,       \* per connection: the request it carries and how far it got
  itemUp,     \* whether the item service is reachable
  orders      \* the number of orders the store holds

vars ==
  <<address, server, grpc, runPc, runErr, listener, inShutdown, acceptErr,
    stopPc, elapsed, conn, itemUp, orders>>

NoRequest == [method |-> "", proto |-> 0, ctype |-> <<>>, path |-> ""]

IdleConn ==
  [st |-> "idle", req |-> NoRequest, kind |-> "ok", target |-> "none",
   trace |-> <<>>, depth |-> 0, code |-> "", panicking |-> FALSE,
   delay |-> 0, obs |-> 0, obsCode |-> "", logs |-> 0,
   status |-> 0, body |-> ""]

\* New: the options run over the defaults, the item client is dialled without
\* blocking (the item service may be up or down), LoadSampleData fills the
\* store with its fixture orders (as few as one, as many as MaxSampleOrders).
Init ==
  /\ address \in Addresses
  /\ server = "nil"
  /\ grpc = "nil"
  /\ runPc = "new"
  /\ runErr = "none"
  /\ listener = "none"
  /\ inShutdown = FALSE
  /\ acceptErr = "none"
  /\ stopPc = [p \in Stoppers |-> "idle"]
  /\ elapsed = [p \in Stoppers |-> 0]
  /\ conn = [c \in Conns |-> IdleConn]
  /\ itemUp \in BOOLEAN
  /\ orders \in {1, MaxSampleOrders}

(* -------------------------------- Run --------------------------------- *)

\* Lines 99-107: the logger, then net.Listen. The logger may fail to build;
\* the bind fails for an address net.Listen cannot resolve and whenever the
\* port is taken (busy).
RunListen ==
  /\ runPc = "new"
  /\ \E fail \in {"none", "logger", "busy"} :
       IF fail = "logger"
       THEN /\ runPc' = "returned"
            /\ runErr' = "logger"
            /\ UNCHANGED listener
       ELSE IF ~Bindable(address) \/ fail = "busy"
       THEN /\ runPc' = "returned"
            /\ runErr' = "listen"
            /\ UNCHANGED listener
       ELSE /\ runPc' = "listening"
            /\ listener' = "open"
            /\ UNCHANGED runErr
  /\ UNCHANGED <<address, server, grpc, inShutdown, acceptErr, stopPc,
                 elapsed, conn, itemUp, orders>>

\* Lines 109-140: the gRPC server with its chain, the gateway registered on
\* the loopback endpoint (a non-blocking dial), the mux. The empty address,
\* which net.Listen took, does not split: Run returns the error with s.grpc
\* assigned and the listener left open. So it does when the registration of
\* the gateway fails.
RunSetup ==
  /\ runPc = "listening"
  /\ grpc' = "set"
  /\ \E registered \in BOOLEAN :
       IF SplitHostPort(address).err
       THEN runPc' = "returned" /\ runErr' = "address"
       ELSE IF ~registered
       THEN runPc' = "returned" /\ runErr' = "gateway"
       ELSE runPc' = "built" /\ UNCHANGED runErr
  /\ UNCHANGED <<address, server, listener, inShutdown, acceptErr, stopPc,
                 elapsed, conn, itemUp, orders>>

\* Lines 142-153: s.server is assigned, with no synchronisation.
RunAssign ==
  /\ runPc = "built"
  /\ server' = "set"
  /\ runPc' = "assigned"
  /\ UNCHANGED <<address, grpc, runErr, listener, inShutdown, acceptErr,
                 stopPc, elapsed, conn, itemUp, orders>>

\* Run without the comparison against http.ErrServerClosed.
RunResultAnyError(err) == IF err # "nil" THEN "serve" ELSE "nil"

\* Lines 155-161: what Run makes of the error Serve returned.
RunResult(err) ==
  IF err # "nil"
  THEN IF err # "ErrServerClosed" THEN "serve" ELSE "nil"
  ELSE "nil"

\* Line 155, entry of s.server.Serve(l): a server already shut down closes
\* the listener and returns ErrServerClosed at once.
RunServe ==
  /\ runPc = "assigned"
  /\ IF inShutdown
     THEN /\ listener' = "closed"
          /\ runPc' = "returned"
          /\ runErr' = RunResult("ErrServerClosed")
     ELSE /\ runPc' = "serving"
          /\ UNCHANGED <<listener, runErr>>
  /\ UNCHANGED <<address, server, grpc, inShutdown, acceptErr, stopPc,
                 elapsed, conn, itemUp, orders>>

\* Accept fails for a reason of the transport (not a shutdown).
TransportFail ==
  /\ runPc = "serving"
  /\ listener = "open"
  /\ acceptErr = "none"
  /\ acceptErr' = "transport"
  /\ UNCHANGED <<address, server, grpc, runPc, runErr, listener, inShutdown,
                 stopPc, elapsed, conn, itemUp, orders>>

\* Lines 155-161: Accept returned an error; Serve closes the listener and
\* returns ErrServerClosed when the server is shutting down, the error
\* otherwise, and Run returns.
ServeReturn ==
  /\ runPc = "serving"
  /\ acceptErr # "none"
  /\ listener' = "closed"
  /\ runPc' = "returned"
  /\ runErr' = RunResult(IF inShutdown THEN "ErrServerClosed" ELSE acceptErr)
  /\ UNCHANGED <<address, server, grpc, inShutdown, acceptErr, stopPc,
                 elapsed, conn, itemUp, orders>>

(* -------------------------------- Stop -------------------------------- *)

\* A context without a deadline (context.Background()).
StopNoDeadline == MaxElapsed + 1

\* Line 166: the deadline of the context handed to Shutdown.
StopDeadline == GracePeriod

\* A connection Shutdown waits for: an HTTP/1 request being served. HTTP/2
\* connections are hijacked by the h2c wrapper and are not waited for.
Active(c) == /\ conn[c].st \in {"entering", "unwinding"}
             /\ conn[c].target = "gateway"

\* Lines 165-168: Stop reads s.server and calls Shutdown on it. A nil handle
\* is dereferenced (a panic). Shutdown sets the flag and closes the listener
\* Serve registered, which fails the pending Accept.
StopCall(p) ==
  /\ stopPc[p] = "idle"
  /\ \A q \in 1 .. p - 1 : stopPc[q] # "idle"
  /\ IF server = "nil"
     THEN /\ stopPc' = [stopPc EXCEPT ![p] = "panicked"]
          /\ UNCHANGED <<inShutdown, listener, acceptErr>>
     ELSE /\ stopPc' = [stopPc EXCEPT ![p] = "polling"]
          /\ inShutdown' = TRUE
          /\ IF runPc = "serving"
             THEN /\ listener' = "closed"
                  /\ acceptErr' = IF acceptErr = "none" THEN "closed" ELSE acceptErr
             ELSE UNCHANGED <<listener, acceptErr>>
  /\ UNCHANGED <<address, server, grpc, runPc, runErr, elapsed, conn, itemUp, orders>>

\* Shutdown's poll finds no connection being served and returns; the deferred
\* cancel releases the context and its timer.
StopIdle(p) ==
  /\ stopPc[p] = "polling"
  /\ \A c \in Conns : ~Active(c)
  /\ stopPc' = [stopPc EXCEPT ![p] = "done"]
  /\ elapsed' = [elapsed EXCEPT ![p] = 0]
  /\ UNCHANGED <<address, server, grpc, runPc, runErr, listener, inShutdown,
                 acceptErr, conn, itemUp, orders>>

\* The context's deadline passes: Shutdown returns its error, Stop returns.
StopTimeout(p) ==
  /\ stopPc[p] = "polling"
  /\ elapsed[p] >= StopDeadline
  /\ stopPc' = [stopPc EXCEPT ![p] = "done"]
  /\ elapsed' = [elapsed EXCEPT ![p] = 0]
  /\ UNCHANGED <<address, server, grpc, runPc, runErr, listener, inShutdown,
                 acceptErr, conn, itemUp, orders>>

\* Time passes for every Stop that is waiting on a connection (a poll that
\* finds none returns before time passes): one clock step, or less when a
\* context reaches its deadline sooner. A context that reached its deadline
\* fires before more time passes.
Tick ==
  LET polling == {p \in Stoppers : stopPc[p] = "polling"}
      room(p) == (IF StopDeadline < MaxElapsed THEN StopDeadline ELSE MaxElapsed)
                   - elapsed[p]
      fits(d) == \A p \in polling : d <= room(p)
      step == CHOOSE d \in 1 .. GracePeriod \div MaxTicks :
                fits(d) /\ \A e \in 1 .. GracePeriod \div MaxTicks : fits(e) => e <= d
  IN
  /\ polling # {}
  /\ \E c \in Conns : Active(c)
  /\ fits(1)
  /\ elapsed' = [p \in Stoppers |->
                   IF p \in polling THEN elapsed[p] + step ELSE elapsed[p]]
  /\ UNCHANGED <<address, server, grpc, runPc, runErr, listener, inShutdown,
                 acceptErr, stopPc, conn, itemUp, orders>>

(* ----------------------------- requests ------------------------------- *)

\* The request the gateway sends to its endpoint for a REST request.
\* POST on the orders route is CreateOrder, GET is ListOrders.
Loopback(r) ==
  [method |-> "POST", proto |-> 2, ctype |-> <<GrpcToken>>,
   path |-> IF r.method = "POST" THEN RpcPath ELSE ListPath]

\* Whether the handler hands request r to the interceptor chain: a native
\* call the gRPC server accepts, of a registered method, or a REST call
\* whose loopback call reaches this server's socket and is dispatched to the
\* gRPC server there.
EntersChain(r) ==
  \/ Dispatch(r) = "grpc" /\ GrpcAccepts(r) /\ r.path \in RpcPaths
  \/ /\ Dispatch(r) = "gateway"
     /\ r.path = RestPath
     /\ Reaches(GatewayEndpoint(address), Listen(address))
     /\ Dispatch(Loopback(r)) = "grpc"
     /\ GrpcAccepts(Loopback(r))

\* The RPC method a request in the chain calls.
RpcOf(r) == IF Dispatch(r) = "grpc" THEN r.path ELSE Loopback(r).path

\* The number of segments of a request path: a gRPC method name has two,
\* "/service/method".
Segments(path) == IF path \in {"/metrics", "/healthz"} THEN 1 ELSE 2

\* A request answered without an RPC reaching the chain. A request the gRPC
\* server refuses gets a plain HTTP error with a text body and no grpc-status
\* (500 here; later grpc-go releases answer 405 or 415). An accepted call
\* whose path is no method name is malformed (ResourceExhausted in the
\* releases that refuse with 500, Unimplemented in later ones); one that
\* names no registered method is Unimplemented. The gateway answers a path
\* without a route with a plain-text 404.
Direct(r) ==
  LET t == Dispatch(r) IN
  CASE t = "healthz" ->
         [code |-> "", status |-> Healthz(itemUp, orders).status,
          body |-> Healthz(itemUp, orders).body]
    [] t = "metrics" -> [code |-> "", status |-> 200, body |-> "metrics"]
    [] t = "grpc" /\ ~GrpcAccepts(r) ->
         [code |-> "", status |-> 500, body |-> "text"]
    [] t = "grpc" /\ Segments(r.path) < 2 ->
         [code |-> "ResourceExhausted", status |-> 200, body |-> "grpc"]
    [] t = "grpc" -> [code |-> "Unimplemented", status |-> 200, body |-> "grpc"]
    [] t = "gateway" /\ r.path # RestPath ->
         [code |-> "", status |-> 404, body |-> "text"]
    [] OTHER ->
         [code |-> "Unavailable", status |-> HTTPStatus("Unavailable"),
          body |-> "json"]

\* Lines 144-151, the handler of the http.Server: request r arrives on
\* connection c. kind is what the RPC it carries will meet.
ServeHTTP(c, r, kind) ==
  /\ runPc = "serving"
  /\ listener = "open"
  /\ acceptErr = "none"
  /\ conn[c].st = "idle"
  /\ \A d \in 1 .. c - 1 : conn[d].st # "idle"
  /\ IF EntersChain(r)
     THEN conn' = [conn EXCEPT ![c] =
            [IdleConn EXCEPT !.st = "entering", !.req = r, !.kind = kind,
                             !.target = Dispatch(r)]]
     ELSE /\ kind = "ok"
          /\ conn' = [conn EXCEPT ![c] =
               [IdleConn EXCEPT !.st = "done", !.req = r, !.kind = kind,
                                !.target = Dispatch(r),
                                !.code = Direct(r).code,
                                !.status = Direct(r).status,
                                !.body = Direct(r).body]]
  /\ UNCHANGED <<address, server, grpc, runPc, runErr, listener, inShutdown,
                 acceptErr, stopPc, elapsed, itemUp, orders>>

\* What a stage does once the handler it wrapped has returned: recovery turns
\* a panic into Internal; logging and metrics record the returned status, and
\* are passed over by a panic that is still unwinding.
StagePost(stage, cn) ==
  CASE stage = "recovery" /\ cn.panicking ->
         [cn EXCEPT !.panicking = FALSE, !.code = "Internal"]
    [] stage = "logging" /\ ~cn.panicking ->
         [cn EXCEPT !.logs = @ + 1]
    [] stage = "metrics" /\ ~cn.panicking ->
         [cn EXCEPT !.obs = @ + 1, !.obsCode = cn.code]
    [] OTHER -> cn

\* The call on connection c enters the next stage of the chain, or, past the
\* last stage, the Order Store handler.
Enter(c) ==
  LET cn == conn[c]
      i == Len(cn.trace) + 1
  IN
  /\ runPc # "crashed"
  /\ cn.st = "entering"
  /\ IF i <= Len(Chain)
     THEN LET stage == Chain[i]
              rej == StageReject(stage, cn.kind)
          IN /\ conn' = [conn EXCEPT ![c] =
                  IF rej # ""
                  THEN [cn EXCEPT !.trace = Append(@, stage), !.code = rej,
                                  !.st = "unwinding", !.depth = NextPost(i - 1)]
                  ELSE [cn EXCEPT !.trace = Append(@, stage),
                                  !.delay = @ + StageDelay(stage)]]
             /\ UNCHANGED orders
     ELSE /\ conn' = [conn EXCEPT ![c] =
               [cn EXCEPT !.trace = Append(@, "handler"),
                          !.panicking = (cn.kind = "panic"),
                          !.code = IF cn.kind = "panic" THEN ""
                                   ELSE HandlerCode(cn.kind, itemUp),
                          !.st = "unwinding",
                          !.depth = NextPost(Len(Chain))]]
          /\ orders' = IF /\ RpcOf(cn.req) = RpcPath
                          /\ cn.kind = "ok"
                          /\ HandlerCode(cn.kind, itemUp) = "OK"
                       THEN orders + 1 ELSE orders
  /\ UNCHANGED <<address, server, grpc, runPc, runErr, listener, inShutdown,
                 acceptErr, stopPc, elapsed, itemUp>>

\* The call returns through the innermost stage that is still open.
Unwind(c) ==
  LET cn == conn[c] IN
  /\ runPc # "crashed"
  /\ cn.st = "unwinding"
  /\ cn.depth >= 1
  /\ conn' = [conn EXCEPT ![c] =
       [StagePost(Chain[cn.depth], cn) EXCEPT !.depth = NextPost(cn.depth - 1)]]
  /\ UNCHANGED <<address, server, grpc, runPc, runErr, listener, inShutdown,
                 acceptErr, stopPc, elapsed, itemUp, orders>>

\* The call leaves the chain: the status goes to the caller (as an HTTP
\* status through the gateway). A panic no stage recovered ends the process.
Return(c) ==
  LET cn == conn[c] IN
  /\ runPc # "crashed"
  /\ cn.st = "unwinding"
  /\ cn.depth = 0
  /\ IF cn.panicking
     THEN /\ runPc' = "crashed"
          /\ conn' = [conn EXCEPT ![c] = [cn EXCEPT !.st = "done"]]
     ELSE /\ UNCHANGED runPc
          /\ conn' = [conn EXCEPT ![c] =
               [cn EXCEPT !.st = "done",
                          !.status = IF cn.target = "gateway"
                                     THEN HTTPStatus(cn.code) ELSE 200,
                          !.body = IF cn.target = "gateway" THEN "json" ELSE "grpc"]]
  /\ UNCHANGED <<address, server, grpc, runErr, listener, inShutdown,
                 acceptErr, stopPc, elapsed, itemUp, orders>>

\* The client sends its next request on connection c (keep-alive).
ConnReuse(c) ==
  /\ conn[c].st = "done"
  /\ orders < MaxOrders
  /\ conn' = [conn EXCEPT ![c] = IdleConn]
  /\ UNCHANGED <<address, server, grpc, runPc, runErr, listener, inShutdown,
                 acceptErr, stopPc, elapsed, itemUp, orders>>

\* The item service becomes unreachable, or reachable again.
ItemToggle ==
  /\ itemUp' = ~itemUp
  /\ UNCHANGED <<address, server, grpc, runPc, runErr, listener, inShutdown,
                 acceptErr, stopPc, elapsed, conn, orders>>

(* --------------------------- specifications --------------------------- *)

RunSteps == RunListen \/ RunSetup \/ RunAssign \/ RunServe

CallSteps(n) == \E c \in 1 .. n : Enter(c) \/ Unwind(c) \/ Return(c)

\* The interceptor chain under concurrent calls.
NextChain ==
  \/ RunSteps
  \/ \E c \in 1 .. MaxCalls, r \in CanonicalRequests, k \in Kinds : ServeHTTP(c, r, k)
  \/ CallSteps(MaxCalls)

SpecChain == Init /\ [][NextChain]_vars

\* The dispatch of every kind of request.
NextRoute ==
  \/ RunSteps
  \/ \E c \in 1 .. MaxRouteConns, r \in Requests, k \in RouteKinds : ServeHTTP(c, r, k)
  \/ CallSteps(MaxRouteConns)
  \/ \E c \in 1 .. MaxRouteConns : ConnReuse(c)
  \/ ItemToggle

SpecRoute == Init /\ [][NextRoute]_vars

\* The lifecycle: Run, Stop, and requests in flight.
Next ==
  \/ RunSteps
  \/ TransportFail
  \/ ServeReturn
  \/ \E p \in Stoppers : StopCall(p) \/ StopIdle(p) \/ StopTimeout(p)
  \/ Tick
  \/ \E c \in 1 .. MaxLifeConns, r \in CanonicalRequests, k \in LifeKinds : ServeHTTP(c, r, k)
  \/ CallSteps(MaxLifeConns)

Spec == Init /\ [][Next]_vars

\* The goroutine in Serve runs: once its Accept has failed, Serve returns.
Fairness == WF_vars(ServeReturn)

FairSpec == Spec /\ Fairness

(* ------------------------------ properties ---------------------------- *)

Started(c) == conn[c].st # "idle"
Finished(c) == conn[c].st = "done"
InChain(c) == Len(conn[c].trace) >= 1
HandlerEntered(c) ==
  Len(conn[c].trace) >= 1 /\ conn[c].trace[Len(conn[c].trace)] = "handler"

IsPrefix(s, t) == Len(s) <= Len(t) /\ \A i \in 1 .. Len(s) : s[i] = t[i]

\* C1 (as claimed): a request goes to the gRPC server exactly when it is
\* HTTP/2 and its Content-Type starts with application/grpc; otherwise
\* /metrics goes to the metrics handler, /healthz to the health handler and
\* every other path to the gateway.
C1_DispatchByPrefix ==
  \A c \in Conns :
    Started(c) =>
      conn[c].target =
        IF conn[c].req.proto = 2 /\ HasPrefix(conn[c].req.ctype, GrpcToken)
        THEN "grpc"
        ELSE IF conn[c].req.path = "/metrics" THEN "metrics"
        ELSE IF conn[c].req.path = "/healthz" THEN "healthz"
        ELSE "gateway"

\* C2: within one call the stages are entered in the order identity,
\* sleeper, validator, metrics, logging, recovery, handler: what a call has
\* entered so far is always a prefix of that sequence.
C2_StageOrder ==
  \A c \in Conns :
    IsPrefix(conn[c].trace,
             <<"identity", "sleeper", "validator", "metrics", "logging",
               "recovery", "handler">>)

\* C2 witness: one call has entered every stage and the handler while
\* another call, started before it, is still two stages in.
C2_Witness ==
  /\ MaxCalls >= 2
  /\ HandlerEntered(2)
  /\ Len(conn[2].trace) = 7
  /\ conn[1].st = "entering"
  /\ Len(conn[1].trace) = 2

\* C3 (as claimed): every call that reached the interceptor chain and has
\* completed, whatever its outcome, has produced exactly one metrics
\* observation.
C3_OneObservationPerCall ==
  \A c \in Conns : (Finished(c) /\ InChain(c)) => conn[c].obs = 1

\* C4 (as claimed): for every listen address, a REST request through the
\* gateway and a native request with the same input traverse the same stages
\* and end with the same status code.
C4_GatewayEqualsNative ==
  \A c, d \in Conns :
    ( /\ Finished(c) /\ conn[c].req = NativeRequest
      /\ Finished(d) /\ conn[d].req = RestRequest
      /\ conn[c].kind = conn[d].kind )
    => ( /\ conn[c].code = conn[d].code
         /\ conn[c].trace = conn[d].trace )

\* C5: a panic in the handler never ends the process; the call that panicked
\* completes with Internal, observed once by metrics with that code and
\* logged once, and the server goes on accepting requests.
C5_PanicRecovered ==
  /\ runPc # "crashed"
  /\ \A c \in Conns :
       (conn[c].kind = "panic" /\ HandlerEntered(c) /\ Finished(c)) =>
         /\ conn[c].code = "Internal"
         /\ conn[c].obs = 1
         /\ conn[c].obsCode = "Internal"
         /\ conn[c].logs = 1
         /\ runPc = "serving"
         /\ \A d \in Conns :
              (conn[d].st = "idle" /\ \A e \in 1 .. d - 1 : conn[e].st # "idle")
                => ENABLED ServeHTTP(d, NativeRequest, "ok")

\* C5 witness: a call that panicked has completed with Internal, and a call
\* on another connection has completed successfully.
C5_Witness ==
  /\ conn[1].kind = "panic" /\ Finished(1) /\ conn[1].code = "Internal"
  /\ conn[1].obs = 1
  /\ MaxCalls >= 2
  /\ conn[2].kind = "ok" /\ Finished(2) /\ conn[2].code = "OK"

\* A Stop that has returned or is waiting in Shutdown.
StopOk(p) == stopPc[p] \in {"polling", "done"}

\* C6: a Stop called while Run is serving, or after another Stop went
\* through, does not panic, and no Stop waits longer than the grace period.
C6_StopIdempotent ==
  /\ [](\A p \in Stoppers : stopPc[p] = "polling" => elapsed[p] <= GracePeriod)
  /\ [][\A p \in Stoppers :
          ( /\ stopPc[p] = "idle"
            /\ stopPc'[p] # "idle"
            /\ (runPc = "serving" \/ \E q \in Stoppers : StopOk(q)) )
          => stopPc'[p] = "polling"]_vars

\* C6 witness: a second Stop is called while the first has waited out the
\* whole grace period on a request in flight.
C6_Witness ==
  /\ stopPc[1] = "polling"
  /\ elapsed[1] = GracePeriod
  /\ stopPc[2] = "polling"
  /\ \E c \in Conns : Active(c)

\* C7: Run has returned nothing while it is serving; once Stop has acted on a
\* serving server Run eventually returns, with no error and the socket
\* closed; Run returns a serve error only after a transport failure.
C7_RunReturnsAfterStop ==
  /\ [](runPc = "serving" => (runErr = "none" /\ server = "set"))
  /\ (runPc = "serving" /\ inShutdown) ~> (runPc = "returned")
  /\ [][(runPc = "serving" /\ inShutdown /\ runPc' # "serving")
        => (runPc' = "returned" /\ runErr' = "nil" /\ listener' = "closed")]_vars
  /\ []((runPc = "returned" /\ server = "set") => listener = "closed")
  /\ [](runErr = "serve" => acceptErr = "transport")

\* C7 witness: Run has returned without an error after a Stop, having served
\* a request, and the socket is closed.
C7_Witness ==
  /\ runPc = "returned"
  /\ runErr = "nil"
  /\ listener = "closed"
  /\ \E p \in Stoppers : stopPc[p] = "done"
  /\ \E c \in Conns : Finished(c)

\* C8 (as claimed): with the default configuration no call is delayed by the
\* sleeper stage.
C8_DefaultNoDelay ==
  address = DefaultAddress => \A c \in Conns : conn[c].delay = 0

\* C9: a GET /healthz that is not dispatched to the gRPC server is answered
\* at once with 200 and "OK\n", whatever the store holds and whether or not
\* the item service is reachable.
C9_HealthzAlwaysOK ==
  \A c \in Conns :
    ( /\ Started(c)
      /\ conn[c].req.method = "GET"
      /\ conn[c].req.path = "/healthz"
      /\ ~IsGrpc(conn[c].req) )
    => ( /\ Finished(c)
         /\ conn[c].status = 200
         /\ conn[c].body = "OK\n" )

\* C9 witness: a health request was answered while the item service is
\* unreachable and the store holds an order created since the fixtures.
C9_Witness ==
  /\ ~itemUp
  /\ orders > MaxSampleOrders
  /\ \E c \in Conns :
       /\ Finished(c)
       /\ conn[c].req.method = "GET"
       /\ conn[c].req.path = "/healthz"
       /\ conn[c].target = "healthz"
       /\ conn[c].status = 200

\* C10 (as claimed): no call of Stop, at any point after New, fails.
C10_StopNeverPanics == \A p \in Stoppers : stopPc[p] # "panicked"

====
